---- MODULE Spec2Model ----
(***************************************************************************)
(* pahkat-repomgr, src/package/update.rs: the repository locator           *)
(* (open_repo, find_repo) and the descriptor upsert (update).              *)
(*                                                                         *)
(* The file system is a map from absolute file paths to file contents; a   *)
(* TOML document is a sequence of lines, each a tuple of strings: a table  *)
(* header (<<"package">>, <<"release">>, <<"target">>) or a key with its    *)
(* value (<<"version", v>>, <<"channel", c>>, <<"platform", p>>,            *)
(* <<"payload", x>>).  An Option is a sequence of length 0 (None) or 1.     *)
(***************************************************************************)
EXTENDS Naturals, Sequences, FiniteSets

\* ------------------------------------------------------------------ bounds

\* update is not taken when the descriptor it would write has more lines
\* than this.
MaxLines == 13

\* ------------------------------------------------------------- value sets

Versions == {"1.0", "2.0"}
Channels == {<<>>, <<"beta">>}
Platforms == {"windows", "mac"}
\* "PX" stands for a payload toml::to_string_pretty cannot serialize.
Payloads == {"P1", "P2", "PX"}
PkgIds == {"p", "q"}

None == <<>>
Some(x) == <<x>>

\* ------------------------------------------------------------------ paths

\* std::path::Path: absolute or relative, and its normal components.
MkPath(abs, comps) == [abs |-> abs, comps |-> comps]

MarkerName == "index.toml"

\* Path::ends_with("index.toml"): the final component is the marker name.
EndsWithMarker(path) ==
    /\ Len(path.comps) > 0
    /\ path.comps[Len(path.comps)] = MarkerName

\* Path::parent() is None for "/" and for the empty path "".
HasParent(path) == Len(path.comps) > 0

\* Path::parent(): the path without its final component.
Parent(path) == MkPath(path.abs, SubSeq(path.comps, 1, Len(path.comps) - 1))

\* Path::join of relative components.
Join(path, comps) == MkPath(path.abs, path.comps \o comps)

\* The absolute location the operating system resolves a path to.
Resolve(wd, path) == IF path.abs THEN path.comps ELSE wd \o path.comps

\* ------------------------------------------------------------------ files

AbsentFile == [kind |-> "absent", text |-> <<>>]
UnreadableFile == [kind |-> "unreadable", text |-> <<>>]
TextFile(text) == [kind |-> "file", text |-> text]

\* fs::read_to_string: the text, or an io::Error.
ReadToString(fsys, file) ==
    IF file \in DOMAIN fsys /\ fsys[file].kind = "file"
    THEN [ok |-> TRUE, text |-> fsys[file].text]
    ELSE [ok |-> FALSE, text |-> <<>>]

\* toml::from_str::<Repository>: the marker document deserializes.
ParsesAsRepository(text) == Len(text) > 0 /\ text[1] = <<"repository">>

RepositoryText == << <<"repository">> >>
GarbageText == << <<"garbage">> >>

\* -------------------------------------------------------------- descriptor

Target(platform, payload) == [platform |-> platform, payload |-> payload]
Release(version, channel, target) ==
    [version |-> version, channel |-> channel, target |-> target]
Descriptor(release) == [release |-> release]

RECURSIVE SerializeTargets(_)
SerializeTargets(tgts) ==
    IF tgts = <<>> THEN <<>>
    ELSE << <<"target">>,
            <<"platform", Head(tgts).platform>>,
            <<"payload", Head(tgts).payload>> >>
         \o SerializeTargets(Tail(tgts))

RECURSIVE SerializeReleases(_)
SerializeReleases(rels) ==
    IF rels = <<>> THEN <<>>
    ELSE << <<"release">>, <<"version", Head(rels).version>> >>
         \o (IF Head(rels).channel = None THEN <<>>
             ELSE << <<"channel", Head(rels).channel[1]>> >>)
         \o SerializeTargets(Head(rels).target)
         \o SerializeReleases(Tail(rels))

Unserializable(descriptor) ==
    \E i \in 1..Len(descriptor.release) :
        \E j \in 1..Len(descriptor.release[i].target) :
            descriptor.release[i].target[j].payload = "PX"

\* toml::to_string_pretty(&descriptor).
Serialize(descriptor) ==
    IF Unserializable(descriptor)
    THEN [ok |-> FALSE, text |-> <<>>]
    ELSE [ok |-> TRUE,
          text |-> << <<"package">> >> \o SerializeReleases(descriptor.release)]

\* The deserializer's state while it reads the lines of a descriptor.
ParserStart ==
    [ok |-> TRUE, rels |-> <<>>,
     inRel |-> FALSE, ver |-> None, chan |-> None, tgts |-> <<>>,
     inTgt |-> FALSE, plat |-> None, pay |-> None]

ParserFail == [ParserStart EXCEPT !.ok = FALSE]

\* The open [[release.target]] table ends: platform and payload are required.
CloseTarget(st) ==
    IF ~st.ok \/ ~st.inTgt THEN st
    ELSE IF st.plat = None \/ st.pay = None THEN ParserFail
    ELSE [st EXCEPT !.tgts = Append(@, Target(st.plat[1], st.pay[1])),
                    !.inTgt = FALSE, !.plat = None, !.pay = None]

\* The open [[release]] table ends: version is required, channel is optional.
CloseRelease(st) ==
    LET s == CloseTarget(st) IN
    IF ~s.ok \/ ~s.inRel THEN s
    ELSE IF s.ver = None THEN ParserFail
    ELSE [s EXCEPT !.rels = Append(@, Release(s.ver[1], s.chan, s.tgts)),
                   !.inRel = FALSE, !.ver = None, !.chan = None, !.tgts = <<>>]

ParseLine(st, line) ==
    IF ~st.ok THEN st
    ELSE IF line = <<"release">>
    THEN LET s == CloseRelease(st) IN
         IF s.ok THEN [s EXCEPT !.inRel = TRUE] ELSE s
    ELSE IF line = <<"target">>
    THEN LET s == CloseTarget(st) IN
         IF s.ok /\ s.inRel THEN [s EXCEPT !.inTgt = TRUE] ELSE ParserFail
    ELSE IF Len(line) # 2 THEN ParserFail
    ELSE IF line[1] = "version" /\ st.inRel /\ ~st.inTgt /\ st.ver = None
    THEN [st EXCEPT !.ver = Some(line[2])]
    ELSE IF line[1] = "channel" /\ st.inRel /\ ~st.inTgt /\ st.chan = None
    THEN [st EXCEPT !.chan = Some(line[2])]
    ELSE IF line[1] = "platform" /\ st.inTgt /\ st.plat = None
    THEN [st EXCEPT !.plat = Some(line[2])]
    ELSE IF line[1] = "payload" /\ st.inTgt /\ st.pay = None
    THEN [st EXCEPT !.pay = Some(line[2])]
    ELSE ParserFail

RECURSIVE ParseLines(_, _)
ParseLines(st, lines) ==
    IF lines = <<>> THEN CloseRelease(st)
    ELSE ParseLines(ParseLine(st, Head(lines)), Tail(lines))

\* toml::from_str::<Descriptor>: the [package] table is required.
Parse(text) ==
    IF text = <<>> \/ Head(text) # <<"package">>
    THEN [ok |-> FALSE, descriptor |-> Descriptor(<<>>)]
    ELSE LET s == ParseLines(ParserStart, Tail(text)) IN
         [ok |-> s.ok, descriptor |-> Descriptor(IF s.ok THEN s.rels ELSE <<>>)]

\* ---------------------------------------------------------------- locator

MarkerFile(wd, path) == Resolve(wd, Join(path, <<MarkerName>>))

\* open_repo: the marker of the directory reads and deserializes.
open_repo(fsys, wd, path) ==
    LET file == ReadToString(fsys, MarkerFile(wd, path)) IN
    file.ok /\ ParsesAsRepository(file.text)

FoundAt(path, visited) == [found |-> TRUE, root |-> Some(path), visited |-> visited]
NotFound(visited) == [found |-> FALSE, root |-> None, visited |-> visited]

\* The loop of find_repo: while the path has a parent, try the parent.
RECURSIVE WalkUp(_, _, _, _)
WalkUp(fsys, wd, path, visited) ==
    IF ~HasParent(path) THEN NotFound(visited)
    ELSE LET parent == Parent(path)
             seen == visited \cup {MarkerFile(wd, parent)}
         IN IF open_repo(fsys, wd, parent) THEN FoundAt(parent, seen)
            ELSE WalkUp(fsys, wd, parent, seen)

\* The directory find_repo starts at.
Candidate(start) == IF EndsWithMarker(start) THEN Parent(start) ELSE start

\* find_repo: Ok(root) or Err(NotFound), and the marker files it read.
find_repo(fsys, wd, start) ==
    LET path == Candidate(start)
        seen == {MarkerFile(wd, path)}
    IN IF open_repo(fsys, wd, path) THEN FoundAt(path, seen)
       ELSE WalkUp(fsys, wd, path, seen)

\* ----------------------------------------------------------------- upsert

\* Iterator::find as a position: the least index of the hits, 0 for None.
FirstOf(hits) ==
    IF hits = {} THEN 0 ELSE CHOOSE i \in hits : \A j \in hits : i <= j

\* A variant of ChannelEq: a release without a channel matches any request.
ChannelEqOrStable(a, b) == a = b \/ a = None

\* Option<String> equality of the release's channel and the request's.
ChannelEq(a, b) == a = b

\* The closure of the release search.
ReleaseMatches(x, version, channel) ==
    x.version = version /\ ChannelEq(x.channel, channel)

\* A variant of FindRelease: the search starts at the second release.
FindReleaseSkipFirst(rels, version, channel) ==
    FirstOf({i \in 2..Len(rels) : ReleaseMatches(rels[i], version, channel)})

\* The release search: descriptor.release.iter_mut().find(..).
FindRelease(rels, version, channel) ==
    FirstOf({i \in 1..Len(rels) : ReleaseMatches(rels[i], version, channel)})

\* A variant of FindTarget: the search starts at the second target.
FindTargetSkipFirst(tgts, platform) ==
    FirstOf({j \in 2..Len(tgts) : tgts[j].platform = platform})

\* The target search: release.target.iter_mut().find(..).
FindTarget(tgts, platform) ==
    FirstOf({j \in 1..Len(tgts) : tgts[j].platform = platform})

\* A variant of InsertFront: Vec::push(e).
InsertBack(s, e) == Append(s, e)

\* Vec::insert(0, e).
InsertFront(s, e) == <<e>> \o s

\* Release::builder().channel(..).version(..).build(): no targets yet.
NewRelease(version, channel) == Release(version, channel, <<>>)

\* The found release, or a new one at the front: the releases and its index.
ResolveRelease(rels, request) ==
    LET i == FindRelease(rels, request.version, request.channel) IN
    IF i # 0 THEN [rels |-> rels, index |-> i]
    ELSE [rels |-> InsertFront(rels, NewRelease(request.version, request.channel)),
          index |-> 1]

\* A variant of OverwritePayload: the found target is removed and put back
\* at the front with the new payload.
MoveToFront(tgts, j, payload) ==
    <<[tgts[j] EXCEPT !.payload = payload]>>
    \o SubSeq(tgts, 1, j - 1) \o SubSeq(tgts, j + 1, Len(tgts))

\* A variant of OverwritePayload: the first target gets the payload.
OverwriteFirst(tgts, j, payload) == [tgts EXCEPT ![1].payload = payload]

\* target.payload = request.payload, on the found target.
OverwritePayload(tgts, j, payload) == [tgts EXCEPT ![j].payload = payload]

\* The found target overwritten, or a new one at the front.
ResolveTarget(tgts, request) ==
    LET j == FindTarget(tgts, request.platform) IN
    IF j # 0 THEN OverwritePayload(tgts, j, request.payload)
    ELSE InsertFront(tgts, Target(request.platform, request.payload))

\* The descriptor update leaves in memory before it serializes it.
Upsert(descriptor, request) ==
    LET r == ResolveRelease(descriptor.release, request) IN
    Descriptor([r.rels EXCEPT ![r.index].target = ResolveTarget(@, request)])

\* The arms update takes: the None arm of the release match, else the None
\* arm of the target match, else the Some arm of both.
Branch(descriptor, request) ==
    LET r == ResolveRelease(descriptor.release, request) IN
    IF Len(r.rels) # Len(descriptor.release) THEN "new_release"
    ELSE IF FindTarget(r.rels[r.index].target, request.platform) = 0
    THEN "new_target"
    ELSE "overwrite"

RECURSIVE SumTargets(_)
SumTargets(rels) ==
    IF rels = <<>> THEN 0 ELSE Len(Head(rels).target) + SumTargets(Tail(rels))

WithinBounds(descriptor) ==
    1 + Len(SerializeReleases(descriptor.release)) <= MaxLines

\* ------------------------------------------------------------------ update

\* What update returns: Ok(()) or the error, with the path the error carries.
Ok == [kind |-> "Ok", path |-> None]
FindRepoNotFound == [kind |-> "FindRepoError::NotFound", path |-> None]
IoError == [kind |-> "io::Error", path |-> None]
TomlDeError == [kind |-> "toml::de::Error", path |-> None]
SerializeToml(path) == [kind |-> "Error::SerializeToml", path |-> Some(path)]
WriteToml(path) == [kind |-> "Error::WriteToml", path |-> Some(path)]

\* fs::write(path, data) creates or truncates the file and then writes the
\* data: it succeeds, or fails before the file is opened, or fails after a
\* strict prefix of the data has reached the file.
WriteOutcomes(old, text) ==
    {[ok |-> TRUE, written |-> TRUE, content |-> TextFile(text)]}
    \cup {[ok |-> FALSE, written |-> FALSE, content |-> old]}
    \cup {[ok |-> FALSE, written |-> TRUE,
           content |-> TextFile(SubSeq(text, 1, n))] : n \in 0..(Len(text) - 1)}

\* One way a call of update ends: the file system it leaves, its result, the
\* step that failed, the files it read and wrote, the descriptor file, and
\* the arms of the two matches it took.
Outcome(fsys, result, cause, reads, writes, file, fits, branch) ==
    [files |-> fsys, result |-> result, cause |-> cause,
     reads |-> reads, writes |-> writes, file |-> file, fits |-> fits,
     branch |-> branch]

\* The error of a failed find_repo, as `?` hands it to the caller.
NoRepoOutcome(fsys, visited) ==
    Outcome(fsys, FindRepoNotFound, "find_repo", visited, {}, None, TRUE, "none")

\* A variant of ReadFailedOutcome: a descriptor that cannot be read is
\* created empty before the error is returned.
ReadFailedCreates(fsys, reads, file) ==
    Outcome([fsys EXCEPT ![file] = TextFile(<<>>)],
            IoError, "read", reads, {}, Some(file), TRUE, "none")

\* The error of a failed read of the descriptor.
ReadFailedOutcome(fsys, reads, file) ==
    Outcome(fsys, IoError, "read", reads, {}, Some(file), TRUE, "none")

\* The error of a descriptor that does not deserialize.
ParseFailedOutcome(fsys, reads, file) ==
    Outcome(fsys, TomlDeError, "parse", reads, {}, Some(file), TRUE, "none")

\* A variant of SerializeFailedOutcome: the file is opened for writing, and
\* so truncated, before the descriptor is serialized.
SerializeFailedTruncates(fsys, reads, file, pkg_path, fits, branch) ==
    Outcome([fsys EXCEPT ![file] = TextFile(<<>>)],
            SerializeToml(pkg_path), "serialize", reads, {file}, Some(file),
            fits, branch)

\* The error of a descriptor that does not serialize: nothing is written.
SerializeFailedOutcome(fsys, reads, file, pkg_path, fits, branch) ==
    Outcome(fsys, SerializeToml(pkg_path), "serialize", reads, {}, Some(file),
            fits, branch)

\* A variant of WriteOutcome: the io::Error of fs::write is returned as it
\* is, without map_err.
WriteOutcomeUnmapped(fsys, reads, file, pkg_path, fits, branch, w) ==
    Outcome([fsys EXCEPT ![file] = w.content],
            IF w.ok THEN Ok ELSE IoError,
            IF w.ok THEN "none" ELSE "write",
            reads,
            IF w.written THEN {file} ELSE {},
            Some(file), fits, branch)

\* fs::write and the mapping of its error.
WriteOutcome(fsys, reads, file, pkg_path, fits, branch, w) ==
    Outcome([fsys EXCEPT ![file] = w.content],
            IF w.ok THEN Ok ELSE WriteToml(pkg_path),
            IF w.ok THEN "none" ELSE "write",
            reads,
            IF w.written THEN {file} ELSE {},
            Some(file), fits, branch)

\* update(request): every way the call can end from this file system.
update(fsys, wd, request) ==
    LET repo == find_repo(fsys, wd, request.repo_path) IN
    IF ~repo.found THEN {NoRepoOutcome(fsys, repo.visited)}
    ELSE
    LET pkg_path == Join(repo.root[1], <<"packages", request.id, MarkerName>>)
        file == Resolve(wd, pkg_path)
        reads == repo.visited \cup {file}
        pkg_file == ReadToString(fsys, file)
    IN
    IF ~pkg_file.ok THEN {ReadFailedOutcome(fsys, reads, file)}
    ELSE
    LET parsed == Parse(pkg_file.text) IN
    IF ~parsed.ok THEN {ParseFailedOutcome(fsys, reads, file)}
    ELSE
    LET descriptor == Upsert(parsed.descriptor, request)
        fits == WithinBounds(descriptor)
        branch == Branch(parsed.descriptor, request)
        data == Serialize(descriptor)
    IN
    IF ~data.ok
    THEN {SerializeFailedOutcome(fsys, reads, file, pkg_path, fits, branch)}
    ELSE {WriteOutcome(fsys, reads, file, pkg_path, fits, branch, w) :
              w \in WriteOutcomes(fsys[file], data.text)}

\* ------------------------------------------------------------------- state

VARIABLES
    files,      \* the file system: absolute file path -> content
    cwd,        \* the working directory relative paths resolve against
    req,        \* the Request of the last call of update (an Option)
    result,     \* what the last call of update returned
    cause,      \* the step at which the last call of update failed
    reads,      \* the files the last call read
    writes,     \* the files the last call wrote to
    start,      \* the path of the last call of find_repo (an Option)
    located,    \* what the last call of find_repo returned
    latest,     \* per descriptor on disk and key, the payload last requested
    branch,     \* the match arms the last call of update took
    repeated    \* the last two calls had the same request and both succeeded

vars ==
    <<files, cwd, req, result, cause, reads, writes, start, located, latest,
      branch, repeated>>

Idle == [kind |-> "Idle", path |-> None]

Root == <<>>
DirA == <<"a">>
DirAB == <<"a", "b">>
DirX == <<"x">>

MarkerDirs == {Root, DirA, DirAB, DirX}
MarkerFiles == {d \o <<MarkerName>> : d \in MarkerDirs}
DescriptorFiles ==
    {d \o <<"packages", id, MarkerName>> : d \in {Root, DirA}, id \in PkgIds}
FilePaths == MarkerFiles \cup DescriptorFiles

Keys == Versions \X Channels \X Platforms

\* The payloads a descriptor holds for a key (version, channel, platform).
PayloadsFor(descriptor, key) ==
    UNION {{descriptor.release[i].target[j].payload :
                j \in {j \in 1..Len(descriptor.release[i].target) :
                          descriptor.release[i].target[j].platform = key[3]}} :
           i \in {i \in 1..Len(descriptor.release) :
                     /\ descriptor.release[i].version = key[1]
                     /\ descriptor.release[i].channel = key[2]}}

\* What a descriptor file holds per key when a sequence of calls starts.
Baseline(content) ==
    LET parsed == Parse(content.text) IN
    [key \in Keys |->
        IF content.kind = "file" /\ parsed.ok
              /\ PayloadsFor(parsed.descriptor, key) # {}
        THEN Some(CHOOSE x \in PayloadsFor(parsed.descriptor, key) : TRUE)
        ELSE None]

\* Descriptors a package may hold before the first call.
OneRelease == Descriptor(<<Release("1.0", None, <<Target("windows", "P1")>>)>>)
TwoReleases ==
    Descriptor(<<Release("2.0", Some("beta"), <<Target("mac", "P1")>>),
                 Release("1.0", None, <<Target("windows", "P1")>>)>>)
SameReleaseTwice ==
    Descriptor(<<Release("1.0", None, <<Target("windows", "P1")>>),
                 Release("1.0", None, <<Target("mac", "P1")>>)>>)
SameTargetTwice ==
    Descriptor(<<Release("1.0", None,
                         <<Target("windows", "P1"), Target("windows", "P2")>>)>>)

\* A hand-written descriptor: the channel key stands before the version key.
HandWritten ==
    << <<"package">>, <<"release">>, <<"channel", "beta">>, <<"version", "1.0">>,
       <<"target">>, <<"payload", "P1">>, <<"platform", "mac">> >>

InitialTexts ==
    {Serialize(d).text :
        d \in {Descriptor(<<>>), OneRelease, TwoReleases,
               SameReleaseTwice, SameTargetTwice}}
    \cup {HandWritten}

\* A repository at /a whose package p holds `text` and whose package q is
\* corrupt; /a/b holds an unreadable marker.
RepoAtA(text) ==
    [f \in FilePaths |->
        IF f = DirA \o <<MarkerName>> THEN TextFile(RepositoryText)
        ELSE IF f = DirAB \o <<MarkerName>> THEN UnreadableFile
        ELSE IF f = DirA \o <<"packages", "p", MarkerName>> THEN TextFile(text)
        ELSE IF f = DirA \o <<"packages", "q", MarkerName>> THEN TextFile(GarbageText)
        ELSE AbsentFile]

\* A repository at / with no package in it; the marker of /a is corrupt.
RepoAtRoot ==
    [f \in FilePaths |->
        IF f = Root \o <<MarkerName>> THEN TextFile(RepositoryText)
        ELSE IF f = DirA \o <<MarkerName>> THEN TextFile(GarbageText)
        ELSE IF f = Root \o <<"packages", "q", MarkerName>> THEN UnreadableFile
        ELSE AbsentFile]

UpdateFileSystems == {RepoAtA(text) : text \in InitialTexts} \cup {RepoAtRoot}

MarkerContents ==
    {AbsentFile, UnreadableFile, TextFile(GarbageText), TextFile(RepositoryText)}

\* Every way the markers of /, /a and /a/b can be; no descriptors.
LocatorFileSystems ==
    {[f \in FilePaths |->
        IF f = Root \o <<MarkerName>> THEN m[1]
        ELSE IF f = DirA \o <<MarkerName>> THEN m[2]
        ELSE IF f = DirAB \o <<MarkerName>> THEN m[3]
        ELSE AbsentFile] :
     m \in MarkerContents \X MarkerContents \X MarkerContents}

InitCalls ==
    /\ req = None
    /\ result = Idle
    /\ cause = "none"
    /\ reads = {}
    /\ writes = {}
    /\ start = None
    /\ located = [found |-> FALSE, root |-> None]
    /\ latest = [f \in {g \in DescriptorFiles : files[g].kind = "file"} |->
                     Baseline(files[f])]
    /\ branch = "none"
    /\ repeated = FALSE

Init ==
    /\ files \in UpdateFileSystems
    /\ cwd = DirA
    /\ InitCalls

InitLocator ==
    /\ files \in LocatorFileSystems
    /\ cwd \in {DirA, DirAB}
    /\ InitCalls

\* The repository paths of the requests: inside a repository, and outside.
RepoPaths == {MkPath(TRUE, DirAB), MkPath(TRUE, DirX)}

\* The requests.  A call for package q or from /x fails before it looks at
\* the version, channel, platform and payload, and a call with payload PX
\* fails whatever the key: one request stands for each of these.
Requests ==
    {r \in [repo_path : RepoPaths, id : PkgIds, platform : Platforms,
            channel : Channels, version : Versions, payload : Payloads] :
        \/ r.repo_path = MkPath(TRUE, DirAB) /\ r.id = "p" /\ r.payload # "PX"
        \/ /\ r.platform = "windows" /\ r.channel = None /\ r.version = "1.0"
           /\ r.payload = "P1" \/ (r.payload = "PX" /\ r.id = "p")}

\* The paths find_repo is called with.
StartPaths ==
    {MkPath(TRUE, c) : c \in {Root, DirA, DirAB, DirX, DirAB \o <<MarkerName>>,
                              <<MarkerName>>, DirAB \o <<"c">>}}
    \cup {MkPath(FALSE, c) : c \in {<<>>, <<MarkerName>>, <<"c">>, <<"b">>}}

RequestKey(request) == <<request.version, request.channel, request.platform>>

\* The payload last requested per key, after a call that ended as `o`.
Latest(old, fsys, request, o) ==
    IF o.result.kind = "Ok"
    THEN [old EXCEPT ![o.file[1]] =
              [@ EXCEPT ![RequestKey(request)] = Some(request.payload)]]
    ELSE IF o.files # fsys
    THEN [old EXCEPT ![o.file[1]] = Baseline(o.files[o.file[1]])]
    ELSE old

\* One call of update.
Update(request) ==
    \E o \in update(files, cwd, request) :
        /\ o.fits
        /\ files' = o.files
        /\ req' = Some(request)
        /\ result' = o.result
        /\ cause' = o.cause
        /\ reads' = o.reads
        /\ writes' = o.writes
        /\ start' = Some(request.repo_path)
        /\ located' = [found |-> o.cause # "find_repo",
                       root |-> find_repo(files, cwd, request.repo_path).root]
        /\ latest' = Latest(latest, files, request, o)
        /\ branch' = o.branch
        /\ repeated' = (req = Some(request) /\ result = Ok /\ o.result = Ok)
        /\ UNCHANGED cwd

\* One call of find_repo.
Locate(path) ==
    LET repo == find_repo(files, cwd, path) IN
    /\ start' = Some(path)
    /\ located' = [found |-> repo.found, root |-> repo.root]
    /\ reads' = repo.visited
    /\ UNCHANGED <<files, cwd, req, result, cause, writes, latest, branch, repeated>>

Next == \E request \in Requests : Update(request)

NextLocator == \E path \in StartPaths : Locate(path)

Spec == Init /\ [][Next]_vars

SpecLocator == InitLocator /\ [][NextLocator]_vars

\* ------------------------------------------------------------- properties

\* The descriptor path and file of the last call of update (once the
\* repository is found).
PkgPath == Join(located.root[1], <<"packages", req[1].id, MarkerName>>)
PkgFile == Resolve(cwd, PkgPath)

DescriptorIn(fsys, file) == Parse(fsys[file].text).descriptor

\* The descriptor that stands in the descriptor file of the last call.
Stored == DescriptorIn(files, PkgFile)

UniqueReleases(descriptor) ==
    \A i, j \in 1..Len(descriptor.release) :
        i # j => ~(/\ descriptor.release[i].version = descriptor.release[j].version
                   /\ descriptor.release[i].channel = descriptor.release[j].channel)

UniqueTargets(release) ==
    \A i, j \in 1..Len(release.target) :
        i # j => release.target[i].platform # release.target[j].platform

Unique(descriptor) ==
    /\ UniqueReleases(descriptor)
    /\ \A i \in 1..Len(descriptor.release) : UniqueTargets(descriptor.release[i])

Min(S) == CHOOSE m \in S : \A n \in S : m <= n

\* The releases of `old` with the request's version and channel.
SameRelease(old, r) ==
    {i \in 1..Len(old.release) :
        /\ old.release[i].version = r.version
        /\ old.release[i].channel = r.channel}

\* The targets of a release with the request's platform.
SamePlatform(release, r) ==
    {j \in 1..Len(release.target) : release.target[j].platform = r.platform}

\* C1, as stated: every descriptor update writes has no two releases with
\* an equal (version, channel) and no release with two targets of an equal
\* platform, whatever descriptor was loaded.
C1_Original == result = Ok => Unique(Stored)

\* C1, amended: when the descriptor update loads has no two releases with an
\* equal (version, channel) and no release with two targets of an equal
\* platform, the descriptor it writes has none either.
C1_UniquenessPreserved ==
    [][result' = Ok
           => \A old \in {DescriptorIn(files, PkgFile')},
                 new \in {DescriptorIn(files', PkgFile')} :
                  Unique(old) => Unique(new)]_vars

\* A call added a second release to a descriptor and left it unique.
C1_Witness ==
    /\ result = Ok
    /\ branch = "new_release"
    /\ Len(Stored.release) = 2
    /\ Unique(Stored)

\* C2: a successful update with the request of the successful update just
\* before it leaves every file as that first update left it.
C2_Idempotent ==
    [][(req' = req /\ result = Ok /\ result' = Ok) => files' = files]_vars

\* The same request succeeded twice in a row.
C2_Witness ==
    /\ repeated
    /\ result = Ok
    /\ Len(Stored.release) >= 1

\* What C3 asks of the descriptors before and after a successful call.
FrontInsertion(old, new, r) ==
    IF SameRelease(old, r) = {}
    THEN new.release =
             <<Release(r.version, r.channel, <<Target(r.platform, r.payload)>>)>>
             \o old.release
    ELSE LET i == Min(SameRelease(old, r)) IN
         SamePlatform(old.release[i], r) = {}
             => new.release =
                    [old.release EXCEPT ![i].target =
                         <<Target(r.platform, r.payload)>> \o @]

\* C3: with no release of the request's (version, channel), the new release
\* stands at index 0 with the request's target alone, before the old
\* releases in their order; with the release but no target of the request's
\* platform, the new target stands at index 0 of that release's targets,
\* before the old targets in their order.
C3_FrontInsertion ==
    [][result' = Ok
           => \A old \in {DescriptorIn(files, PkgFile')},
                 new \in {DescriptorIn(files', PkgFile')} :
                  FrontInsertion(old, new, req'[1])]_vars

\* A call put a new target in front of the target a release already had.
C3_Witness ==
    /\ result = Ok
    /\ branch = "new_target"
    /\ \E i \in 1..Len(Stored.release) :
           /\ Len(Stored.release[i].target) = 2
           /\ Stored.release[i].target[1] = Target(req[1].platform, req[1].payload)

\* What C5 asks of the descriptors before and after a successful call.
InPlace(old, new, r) ==
    (/\ SameRelease(old, r) # {}
     /\ SamePlatform(old.release[Min(SameRelease(old, r))], r) # {})
    => LET i == Min(SameRelease(old, r))
           j == Min(SamePlatform(old.release[i], r))
       IN new.release = [old.release EXCEPT ![i].target[j].payload = r.payload]

\* C5: when a release and a target match the request, the descriptor after
\* the call is the descriptor before it with the payload of that one target
\* replaced: nothing added, every index and platform kept, all else equal.
C5_InPlace ==
    [][result' = Ok
           => \A old \in {DescriptorIn(files, PkgFile')},
                 new \in {DescriptorIn(files', PkgFile')} :
                  InPlace(old, new, req'[1])]_vars

\* A call overwrote the payload of one target among several.
C5_Witness ==
    /\ result = Ok
    /\ branch = "overwrite"
    /\ ~repeated
    /\ SumTargets(Stored.release) >= 2

\* C6: a call that fails at find_repo, at the read or the parse of the
\* descriptor, or at serialization changes no file.
C6_FailureLeavesFile ==
    [][cause' \in {"find_repo", "read", "parse", "serialize"}
           => files' = files]_vars

\* A call failed at serialization over a descriptor that holds a release.
C6_Witness ==
    /\ cause = "serialize"
    /\ Parse(files[PkgFile].text).ok
    /\ Len(Stored.release) >= 1

\* C7: a serialization failure and a write failure are reported as their own
\* kinds with the descriptor path, a failed find_repo as its own kind, and a
\* call that failed at any step does not return Ok.  (update creates no
\* directory, so no call ends in Error::DirCreateFailed.)
C7_ErrorKinds ==
    /\ cause = "serialize" => result = SerializeToml(PkgPath)
    /\ cause = "write" => result = WriteToml(PkgPath)
    /\ cause = "find_repo" => result = FindRepoNotFound
    /\ cause = "read" => result = IoError
    /\ cause = "parse" => result = TomlDeError
    /\ cause # "none" => result # Ok
    /\ result.kind # "Error::DirCreateFailed"

\* A write failed and the call reported it with the descriptor path.
C7_Witness ==
    /\ cause = "write"
    /\ result = WriteToml(MkPath(TRUE, DirA \o <<"packages", "p", MarkerName>>))

\* Exact equality of two optional channels, spelled out.
ExactChannel(a, b) ==
    \/ a = None /\ b = None
    \/ a # None /\ b # None /\ a[1] = b[1]

\* The releases of `old` the request may reuse by C8.
ExactRelease(old, r) ==
    {i \in 1..Len(old.release) :
        /\ old.release[i].version = r.version
        /\ ExactChannel(old.release[i].channel, r.channel)}

\* What C8 asks of the descriptors before and after a successful call.
ChannelExact(old, new, r) ==
    IF ExactRelease(old, r) = {}
    THEN /\ Len(new.release) = Len(old.release) + 1
         /\ new.release[1].version = r.version
         /\ new.release[1].channel = r.channel
         /\ \A i \in 1..Len(old.release) : new.release[i + 1] = old.release[i]
    ELSE /\ Len(new.release) = Len(old.release)
         /\ \A i \in 1..Len(old.release) :
                i \notin ExactRelease(old, r) => new.release[i] = old.release[i]

\* C8: a call reuses a release only when the versions are equal and the
\* channels are both None or both the same string; otherwise it creates the
\* release at the front and leaves the others as they were.
C8_ChannelExact ==
    [][result' = Ok
           => \A old \in {DescriptorIn(files, PkgFile')},
                 new \in {DescriptorIn(files', PkgFile')} :
                  ChannelExact(old, new, req'[1])]_vars

\* A request with a channel made a new release in front of the release of
\* the same version that has no channel.
C8_Witness ==
    /\ result = Ok
    /\ branch = "new_release"
    /\ req[1].channel # None
    /\ \E i \in 2..Len(Stored.release) :
           /\ Stored.release[i].version = req[1].version
           /\ Stored.release[i].channel = None

\* C9, as stated: the one file a call that found the repository reads is
\* the package descriptor.
C9_Original == (req # None /\ located.found) => reads = {PkgFile}

\* The marker files from the directory find_repo starts at up to the root it
\* found, or up to the top of the path when it found none.
MarkersOnTheWay ==
    LET from == Candidate(start[1])
        top == IF located.found THEN Len(located.root[1].comps) ELSE 0
    IN {MarkerFile(cwd, MkPath(from.abs, SubSeq(from.comps, 1, k))) :
            k \in top..Len(from.comps)}

\* C9, amended: a call reads the markers of the directories find_repo visits
\* and, once the repository is found, the package descriptor; on success the
\* descriptor and no other file is written; a file the call does not write
\* keeps its content, and no absent file is created.
C9_SideEffects ==
    [][/\ reads' = MarkersOnTheWay' \cup (IF located'.found THEN {PkgFile'} ELSE {})
       /\ writes' \subseteq (IF located'.found THEN {PkgFile'} ELSE {})
       /\ result' = Ok => writes' = {PkgFile'}
       /\ \A f \in FilePaths :
              /\ f \notin writes' => files'[f] = files[f]
              /\ files[f].kind = "absent" => files'[f].kind = "absent"]_vars

\* A call read two markers and the descriptor and wrote the descriptor.
C9_Witness ==
    /\ result = Ok
    /\ Cardinality(reads) = 3
    /\ writes = {PkgFile}

\* What C10 asks of the descriptors before and after a successful call.
NothingRemoved(old, new) ==
    /\ Len(old.release) <= Len(new.release)
    /\ Len(new.release) <= Len(old.release) + 1
    /\ SumTargets(old.release) <= SumTargets(new.release)
    /\ SumTargets(new.release) <= SumTargets(old.release) + 1
    /\ \A key \in Keys :
           PayloadsFor(old, key) # {} => PayloadsFor(new, key) # {}
    /\ \A i \in 1..Len(old.release) :
           \E j \in 1..Len(new.release) :
               /\ new.release[j].version = old.release[i].version
               /\ new.release[j].channel = old.release[i].channel

\* A unique descriptor holds, per key, the payload last requested.
LastRequestWins ==
    \A f \in DOMAIN latest :
        files[f].kind = "file" =>
            \A parsed \in {Parse(files[f].text)} :
                (parsed.ok /\ Unique(parsed.descriptor))
                => \A key \in Keys :
                       PayloadsFor(parsed.descriptor, key) =
                           (IF latest[f][key] = None THEN {}
                            ELSE {latest[f][key][1]})

\* C10: after successful calls on a descriptor that was unique, each key
\* holds the payload of the last request with that key, or its first payload
\* when no request had the key; a call removes no release and no target and
\* adds at most one of each.
C10_LastRequestWins ==
    /\ []LastRequestWins
    /\ [][result' = Ok
              => \A old \in {DescriptorIn(files, PkgFile')},
                    new \in {DescriptorIn(files', PkgFile')} :
                     NothingRemoved(old, new)]_vars

\* A call replaced a payload in a unique descriptor that holds a second key.
C10_Witness ==
    /\ result = Ok
    /\ branch = "overwrite"
    /\ ~repeated
    /\ Unique(Stored)
    /\ \E key \in Keys :
           /\ key # RequestKey(req[1])
           /\ latest[PkgFile][key] # None
           /\ latest[PkgFile][RequestKey(req[1])] = Some(req[1].payload)

\* The absolute directories from the one find_repo starts at up to /.
Ancestors(dir) == {SubSeq(dir, 1, k) : k \in 0..Len(dir)}

\* The directories among them whose marker reads and deserializes.
Repositories(dir) ==
    {d \in Ancestors(dir) : open_repo(files, cwd, MkPath(TRUE, d))}

\* C4: find_repo returns the nearest directory, from the one it starts at up
\* to the root of the file system, whose marker reads and deserializes, and
\* fails with NotFound exactly when there is none.
C4_NearestRepository ==
    start # None =>
        LET dir == Resolve(cwd, Candidate(start[1])) IN
        /\ located.found <=> Repositories(dir) # {}
        /\ located.found =>
               /\ Resolve(cwd, located.root[1]) \in Repositories(dir)
               /\ \A d \in Repositories(dir) :
                      Len(d) <= Len(Resolve(cwd, located.root[1]))

====
